---- MODULE Spec2Model ----
(***************************************************************************)
(* GLM usage monitor (temp_glm_monitor): the quota client, the application *)
(* state, the refresh scheduler, the event loop and the one-shot (waybar)  *)
(* output, as a state machine.                                             *)
(*                                                                         *)
(* Time is a discrete monotonic clock `now`; every handler reads the clock *)
(* once (std::time::Instant::now and chrono::Local::now inside one handler *)
(* are the same reading).  Percentages (f64 in the source) are integers in *)
(* tenths of a percent: 904 is 90.4.                                       *)
(***************************************************************************)
EXTENDS Integers, Sequences, FiniteSets, TLC

VARIABLES
    quota_data,        \* AppState.quota_data: Option<QuotaLimitResponse>
    last_update,       \* AppState.last_update: Option<time>
    last_error,        \* AppState.last_error: Option<text>
    next_refresh,      \* AppState.next_refresh: the deadline
    refresh_interval,  \* AppState.refresh_interval
    is_loading,        \* AppState.is_loading
    should_quit,       \* AppState.should_quit
    waybar,            \* Cli.waybar
    pc,                \* position of main / run_app
    now,               \* the monotonic clock
    last_tick,         \* run_app's last_tick
    stdout,            \* what println! has written, in order
    fetch_count,       \* history: number of calls of fetch_quota_limit
    response,          \* history: Option of the response the last fetch got
    last_fetch,        \* history: Option of the Result the last fetch returned
    last_op,           \* history: the operation that produced this state
    last_key,          \* history: the key of the last key event handled
    force_pending,     \* history: a forced refresh no scheduler evaluation has seen yet
    fetch_done_at,     \* history: Option of the time the last fetch returned
    screen,            \* Option of what the last terminal.draw put on the terminal
    call,              \* Option of a call of a function taken alone (Format, Config::load)
    ret,               \* Option of what that call returned
    typed              \* Option of a key typed while a fetch was in flight, not read yet

app_state == <<quota_data, last_update, last_error, next_refresh,
               refresh_interval, is_loading, should_quit>>

vars == <<quota_data, last_update, last_error, next_refresh, refresh_interval,
          is_loading, should_quit, waybar, pc, now, last_tick, stdout,
          fetch_count, response, last_fetch, last_op, last_key, force_pending,
          fetch_done_at, screen, call, ret, typed>>

helper_vars == <<call, ret>>

(***************************************************************************)
(* Bounds of the model.                                                    *)
(***************************************************************************)
MaxTime == 5
MaxInterval == 2
MaxFetchTime == 1
MaxDrawTime == 1
TickRate == 2
MaxFetches == 3
MaxLimits == 2

(***************************************************************************)
(* Option<T> and Result<T, E>.                                             *)
(***************************************************************************)
None == <<>>
Some(v) == <<v>>
IsSome(o) == Len(o) = 1
Unwrap(o) == o[1]

Ok(v) == [ok |-> TRUE, v |-> v]
Err(e) == [ok |-> FALSE, e |-> e]

(***************************************************************************)
(* JSON values (serde_json::Value), tagged by kind.  NotJson is a body     *)
(* that does not parse as JSON at all.                                     *)
(***************************************************************************)
JNull == [t |-> "null"]
JNum(n) == [t |-> "num", n |-> n]
JStr(s) == [t |-> "str", s |-> s]
JArr(a) == [t |-> "arr", a |-> a]
JObj(f) == [t |-> "obj", f |-> f]
NotJson == [t |-> "text"]

HasField(j, k) == j.t = "obj" /\ k \in DOMAIN j.f

(***************************************************************************)
(* serde's derived Deserialize for the models.  An Option field is None    *)
(* when the key is missing or null; a Vec field with #[serde(default)] is  *)
(* empty when the key is missing, and an error when it is null.            *)
(***************************************************************************)
DecodeErr == [ok |-> FALSE]

decode_opt_num(f, k) ==
    IF k \notin DOMAIN f THEN Ok(None)
    ELSE IF f[k].t = "null" THEN Ok(None)
    ELSE IF f[k].t = "num" THEN Ok(Some(f[k].n))
    ELSE DecodeErr

decode_opt_str(f, k) ==
    IF k \notin DOMAIN f THEN Ok(None)
    ELSE IF f[k].t = "null" THEN Ok(None)
    ELSE IF f[k].t = "str" THEN Ok(Some(f[k].s))
    ELSE DecodeErr

decode_UsageDetail(j) ==
    IF j.t # "obj" THEN DecodeErr
    ELSE LET model_code == decode_opt_str(j.f, "modelCode")
             usage == decode_opt_num(j.f, "usage")
         IN  IF model_code.ok /\ usage.ok
             THEN Ok([model_code |-> model_code.v, usage |-> usage.v])
             ELSE DecodeErr

decode_usage_details(f) ==
    IF "usageDetails" \notin DOMAIN f THEN Ok(<<>>)
    ELSE IF f["usageDetails"].t # "arr" THEN DecodeErr
    ELSE LET a == f["usageDetails"].a
         IN  IF \A i \in 1..Len(a) : decode_UsageDetail(a[i]).ok
             THEN Ok([i \in 1..Len(a) |-> decode_UsageDetail(a[i]).v])
             ELSE DecodeErr

decode_Limit(j) ==
    IF j.t # "obj" THEN DecodeErr
    ELSE IF "type" \notin DOMAIN j.f THEN DecodeErr
    ELSE IF j.f["type"].t # "str" THEN DecodeErr
    ELSE LET usage == decode_opt_num(j.f, "usage")
             current_value == decode_opt_num(j.f, "currentValue")
             remaining == decode_opt_num(j.f, "remaining")
             percentage == decode_opt_num(j.f, "percentage")
             unit == decode_opt_num(j.f, "unit")
             number == decode_opt_num(j.f, "number")
             usage_details == decode_usage_details(j.f)
             next_reset_time == decode_opt_num(j.f, "nextResetTime")
         IN  IF /\ usage.ok /\ current_value.ok /\ remaining.ok /\ percentage.ok
                /\ unit.ok /\ number.ok /\ usage_details.ok /\ next_reset_time.ok
             THEN Ok([limit_type |-> j.f["type"].s,
                      usage |-> usage.v,
                      current_value |-> current_value.v,
                      remaining |-> remaining.v,
                      percentage |-> percentage.v,
                      unit |-> unit.v,
                      number |-> number.v,
                      usage_details |-> usage_details.v,
                      next_reset_time |-> next_reset_time.v])
             ELSE DecodeErr

decode_QuotaLimitResponse(j) ==
    IF j.t # "obj" THEN DecodeErr
    ELSE IF "limits" \notin DOMAIN j.f THEN DecodeErr
    ELSE IF j.f["limits"].t # "arr" THEN DecodeErr
    ELSE LET a == j.f["limits"].a
         IN  IF \A i \in 1..Len(a) : decode_Limit(a[i]).ok
             THEN Ok([limits |-> [i \in 1..Len(a) |-> decode_Limit(a[i]).v]])
             ELSE DecodeErr

(***************************************************************************)
(* anyhow::Error: a message and the chain of causes under it.  Display     *)
(* ("{}", as refresh_data formats it) prints the outermost message only.   *)
(***************************************************************************)
AnyhowError(msg, cause) == [msg |-> msg, cause |-> cause]
Context(text, cause) == AnyhowError([text |-> text], cause)
HttpFailure(status, body) ==
    AnyhowError([text |-> "HTTP {}: Failed to fetch quota limit\nURL: {}\nResponse: {}",
                 status |-> status, url |-> "quota_limit_url", body |-> body],
                "none")
Display(e) == e.msg

\* reqwest's StatusCode::is_success
is_success(status) == 200 <= status /\ status <= 299

(***************************************************************************)
(* GlmApiClient::fetch_quota_limit, as a function of the response r the    *)
(* request meets: r.send and r.read say whether send() and text()          *)
(* succeeded, r.status and r.body are what they delivered.                 *)
(***************************************************************************)
\* Variant: a data field that does not decode falls through to the direct decode.
fetch_quota_limit_fallback(r) ==
    IF ~r.send THEN Err(Context("Failed to send request to quota limit endpoint", "reqwest"))
    ELSE IF ~r.read THEN Err(Context("Failed to read response body", "reqwest"))
    ELSE IF ~is_success(r.status) THEN Err(HttpFailure(r.status, r.body))
    ELSE IF HasField(r.body, "data") /\ decode_QuotaLimitResponse(r.body.f["data"]).ok
    THEN Ok(decode_QuotaLimitResponse(r.body.f["data"]).v)
    ELSE LET direct == IF r.body.t = "text" THEN DecodeErr
                       ELSE decode_QuotaLimitResponse(r.body)
         IN  IF direct.ok THEN Ok(direct.v)
             ELSE Err(Context("Failed to parse quota limit response", "serde_json"))

\* Variant: the status is not looked at before the body is decoded.
fetch_quota_limit_any_status(r) ==
    IF ~r.send THEN Err(Context("Failed to send request to quota limit endpoint", "reqwest"))
    ELSE IF ~r.read THEN Err(Context("Failed to read response body", "reqwest"))
    ELSE IF HasField(r.body, "data")
    THEN LET quota == decode_QuotaLimitResponse(r.body.f["data"])
         IN  IF quota.ok THEN Ok(quota.v)
             ELSE Err(Context("Failed to parse quota limit data", "serde_json"))
    ELSE LET direct == IF r.body.t = "text" THEN DecodeErr
                       ELSE decode_QuotaLimitResponse(r.body)
         IN  IF direct.ok THEN Ok(direct.v)
             ELSE IF ~is_success(r.status) THEN Err(HttpFailure(r.status, r.body))
             ELSE Err(Context("Failed to parse quota limit response", "serde_json"))

\* Variant: the envelope is looked for under "result" instead of "data".
fetch_quota_limit_other_envelope(r) ==
    IF ~r.send THEN Err(Context("Failed to send request to quota limit endpoint", "reqwest"))
    ELSE IF ~r.read THEN Err(Context("Failed to read response body", "reqwest"))
    ELSE IF ~is_success(r.status) THEN Err(HttpFailure(r.status, r.body))
    ELSE IF HasField(r.body, "result")
    THEN LET quota == decode_QuotaLimitResponse(r.body.f["result"])
         IN  IF quota.ok THEN Ok(quota.v)
             ELSE Err(Context("Failed to parse quota limit data", "serde_json"))
    ELSE LET direct == IF r.body.t = "text" THEN DecodeErr
                       ELSE decode_QuotaLimitResponse(r.body)
         IN  IF direct.ok THEN Ok(direct.v)
             ELSE Err(Context("Failed to parse quota limit response", "serde_json"))

fetch_quota_limit(r) ==
    IF ~r.send THEN Err(Context("Failed to send request to quota limit endpoint", "reqwest"))
    ELSE IF ~r.read THEN Err(Context("Failed to read response body", "reqwest"))
    ELSE IF ~is_success(r.status) THEN Err(HttpFailure(r.status, r.body))
    ELSE IF HasField(r.body, "data")
    THEN \* the body parsed as a Value and has a top-level "data": `?` returns its error
         LET quota == decode_QuotaLimitResponse(r.body.f["data"])
         IN  IF quota.ok THEN Ok(quota.v)
             ELSE Err(Context("Failed to parse quota limit data", "serde_json"))
    ELSE \* no Value, or no "data": the whole body is decoded
         LET direct == IF r.body.t = "text" THEN DecodeErr
                       ELSE decode_QuotaLimitResponse(r.body)
         IN  IF direct.ok THEN Ok(direct.v)
             ELSE Err(Context("Failed to parse quota limit response", "serde_json"))

(***************************************************************************)
(* The responses the model draws from.                                     *)
(***************************************************************************)
SeqsUpTo(S, n) == UNION {[1..k -> S] : k \in 0..n}

Missing == [t |-> "missing"]
PctReprs == {Missing, JNull, JNum(0), JNum(404), JNum(750), JNum(900), JNum(904)}

JLimitBare(ty, p) ==
    JObj(IF p = Missing THEN [type |-> JStr(ty)]
         ELSE [type |-> JStr(ty), percentage |-> p])

JLimitFull(ty, p) ==
    LET details == JArr(<<JObj([modelCode |-> JStr("glm-4.6"), usage |-> JNum(7)]),
                          JObj([usage |-> JNull])>>)
        rest == [type |-> JStr(ty), usage |-> JNum(1200), currentValue |-> JNum(300),
                 remaining |-> JNum(900), unit |-> JNum(3), number |-> JNum(5),
                 usageDetails |-> details, nextResetTime |-> JNum(1000)]
    IN  JObj(IF p = Missing THEN rest ELSE rest @@ [percentage |-> p])

JLimits ==
    {JLimitBare("TOKENS_LIMIT", p) : p \in PctReprs}
        \cup {JLimitFull("TIME_LIMIT", p) : p \in {Missing, JNum(0), JNum(756)}}

\* Bodies of the documented shape {"limits": [...]}, and the same in the envelope.
SnapshotJson(a) == JObj([limits |-> JArr(a)])
SnapshotJsons == {SnapshotJson(a) : a \in SeqsUpTo(JLimits, MaxLimits)}
Wrap(j) == JObj([code |-> JNum(200), msg |-> JStr("ok"), data |-> j])

SampleLimit == JLimitBare("TOKENS_LIMIT", JNum(404))
OtherLimit == JLimitFull("TIME_LIMIT", JNum(756))

\* Bodies that are not of that shape.
OddBodies ==
    {NotJson,
     JArr(<<>>),
     JObj([code |-> JNum(500)]),
     JObj([limits |-> JNull]),
     SnapshotJson(<<JObj([percentage |-> JNum(500)])>>),
     SnapshotJson(<<JObj([type |-> JStr("TOKENS_LIMIT"), percentage |-> JStr("high")])>>),
     SnapshotJson(<<JObj([type |-> JStr("TOKENS_LIMIT"), usageDetails |-> JNull])>>),
     Wrap(JObj([limits |-> JNull])),
     JObj([data |-> JStr("unavailable")]),
     JObj([data |-> JNull, limits |-> JArr(<<SampleLimit>>)]),
     JObj([data |-> JObj([items |-> JArr(<<>>)]), limits |-> JArr(<<SampleLimit, OtherLimit>>)]),
     JObj([data |-> SnapshotJson(<<OtherLimit>>), limits |-> JNull])}

Bodies == SnapshotJsons \cup {Wrap(j) : j \in SnapshotJsons} \cup OddBodies

Statuses == {200, 299, 304, 404, 500}

Delivered(status, body) == [send |-> TRUE, read |-> TRUE, status |-> status, body |-> body]
SendFailed == [send |-> FALSE, read |-> FALSE, status |-> 0, body |-> NotJson]
ReadFailed(status) == [send |-> TRUE, read |-> FALSE, status |-> status, body |-> NotJson]

Responses ==
    {SendFailed} \cup {ReadFailed(s) : s \in Statuses}
        \cup {Delivered(s, b) : s \in Statuses, b \in Bodies}

\* The responses the event loop is run against.
LoopResponses ==
    {SendFailed,
     Delivered(500, JObj([code |-> JNum(500)])),
     Delivered(200, NotJson),
     Delivered(200, Wrap(SnapshotJson(<<SampleLimit>>))),
     Delivered(200, SnapshotJson(<<OtherLimit, SampleLimit>>))}

(***************************************************************************)
(* AppState (models.rs).  t is the clock reading of the caller.            *)
(***************************************************************************)
AppState_new(t) ==
    /\ quota_data = None
    /\ last_update = None
    /\ last_error = None
    /\ next_refresh = t
    /\ refresh_interval \in 0..MaxInterval
    /\ is_loading = TRUE
    /\ should_quit = FALSE

\* Variant: the new limits are appended to the stored ones.
update_quota_merging(data, t) ==
    /\ quota_data' = IF IsSome(quota_data)
                     THEN Some([limits |-> Unwrap(quota_data).limits \o data.limits])
                     ELSE Some(data)
    /\ last_update' = Some(t)
    /\ last_error' = None
    /\ is_loading' = FALSE
    /\ next_refresh' = t + refresh_interval
    /\ UNCHANGED <<refresh_interval, should_quit>>

\* Variant: a success leaves a stored error in place.
update_quota_keeping_error(data, t) ==
    /\ quota_data' = Some(data)
    /\ last_update' = Some(t)
    /\ is_loading' = FALSE
    /\ next_refresh' = t + refresh_interval
    /\ UNCHANGED <<last_error, refresh_interval, should_quit>>

\* Variant: after a success the deadline is later than one interval away.
update_quota_late_deadline(data, t) ==
    /\ quota_data' = Some(data)
    /\ last_update' = Some(t)
    /\ last_error' = None
    /\ is_loading' = FALSE
    /\ next_refresh' = t + refresh_interval + 1
    /\ UNCHANGED <<refresh_interval, should_quit>>

update_quota(data, t) ==
    /\ quota_data' = Some(data)
    /\ last_update' = Some(t)
    /\ last_error' = None
    /\ is_loading' = FALSE
    /\ next_refresh' = t + refresh_interval
    /\ UNCHANGED <<refresh_interval, should_quit>>

\* Variant: the stored snapshot is dropped on an error.
set_error_clearing(error, t) ==
    /\ last_error' = Some(error)
    /\ quota_data' = None
    /\ is_loading' = FALSE
    /\ next_refresh' = t + refresh_interval
    /\ UNCHANGED <<last_update, refresh_interval, should_quit>>

\* Variant: an error leaves the deadline where it was.
set_error_keeping_deadline(error, t) ==
    /\ last_error' = Some(error)
    /\ is_loading' = FALSE
    /\ UNCHANGED <<quota_data, last_update, next_refresh, refresh_interval, should_quit>>

\* Variant: an error leaves the loading flag as it was.
set_error_still_loading(error, t) ==
    /\ last_error' = Some(error)
    /\ next_refresh' = t + refresh_interval
    /\ UNCHANGED <<quota_data, last_update, refresh_interval, is_loading, should_quit>>

\* Variant: after an error the next refresh is due at once.
set_error_retry_now(error, t) ==
    /\ last_error' = Some(error)
    /\ is_loading' = FALSE
    /\ next_refresh' = t
    /\ UNCHANGED <<quota_data, last_update, refresh_interval, should_quit>>

\* Variant: the error is not stored.
set_error_dropped(error, t) ==
    /\ is_loading' = FALSE
    /\ next_refresh' = t + refresh_interval
    /\ UNCHANGED <<quota_data, last_update, last_error, refresh_interval, should_quit>>

\* Variant: an error also stamps last_update.
set_error_touching_update(error, t) ==
    /\ last_error' = Some(error)
    /\ last_update' = Some(t)
    /\ is_loading' = FALSE
    /\ next_refresh' = t + refresh_interval
    /\ UNCHANGED <<quota_data, refresh_interval, should_quit>>

set_error(error, t) ==
    /\ last_error' = Some(error)
    /\ is_loading' = FALSE
    /\ next_refresh' = t + refresh_interval
    /\ UNCHANGED <<quota_data, last_update, refresh_interval, should_quit>>

\* Variant: due only strictly after the deadline.
should_refresh_now_strict(t) == t > next_refresh

should_refresh_now(t) == t >= next_refresh

force_refresh(t) ==
    /\ next_refresh' = t
    /\ is_loading' = TRUE

(***************************************************************************)
(* App (app.rs).                                                           *)
(***************************************************************************)
Keys == {"q", "Q", "r", "R", "x"}

\* Variant: a forced refresh also clears the stored error.
handle_key_event_clearing_error(key, t) ==
    /\ IF key \in {"q", "Q"}
       THEN should_quit' = TRUE /\ UNCHANGED <<next_refresh, is_loading, last_error>>
       ELSE IF key \in {"r", "R"}
       THEN force_refresh(t) /\ last_error' = None /\ UNCHANGED should_quit
       ELSE UNCHANGED <<next_refresh, is_loading, should_quit, last_error>>
    /\ UNCHANGED <<quota_data, last_update, refresh_interval>>

handle_key_event(key, t) ==
    /\ IF key \in {"q", "Q"}
       THEN should_quit' = TRUE /\ UNCHANGED <<next_refresh, is_loading>>
       ELSE IF key \in {"r", "R"}
       THEN force_refresh(t) /\ UNCHANGED should_quit
       ELSE UNCHANGED <<next_refresh, is_loading, should_quit>>
    /\ UNCHANGED <<quota_data, last_update, last_error, refresh_interval>>

\* refresh_data from the point where fetch_quota_limit has returned `result`
refresh_data_return(result, t) ==
    IF result.ok
    THEN update_quota(result.v, t)
    ELSE set_error(Display(result.e), t)

get_quota == quota_data
get_last_error == last_error

(***************************************************************************)
(* Config (config.rs).  A text is the sequence of its characters; "u" is   *)
(* a text url::Url::parse accepts, "d" stands for DEFAULT_BASE_URL.  What   *)
(* Config::load reads: whether dirs::config_dir() gives a directory, the   *)
(* config file (does it exist, can it be read, does it parse as            *)
(* ConfigFile, its two api fields) and the two environment variables       *)
(* (None: not set, or not Unicode).  refresh_sec and http_timeout_sec      *)
(* cannot fail and are left out.                                           *)
(***************************************************************************)
DEFAULT_BASE_URL == <<"d">>

\* str::trim
trim(s) ==
    LET kept == {i \in 1..Len(s) : s[i] # " "}
    IN  IF kept = {} THEN <<>>
        ELSE SubSeq(s, CHOOSE i \in kept : \A j \in kept : i <= j,
                       CHOOSE i \in kept : \A j \in kept : i >= j)

\* Option::filter(|v| !v.is_empty())
filter_not_empty(o) == IF IsSome(o) /\ Unwrap(o) # <<>> THEN o ELSE None

\* Option::or_else
or_else(o, other) == IF IsSome(o) THEN o ELSE other

\* Option::map(|v| v.trim().to_string())
map_trim(o) == IF IsSome(o) THEN Some(trim(Unwrap(o))) ELSE None

\* Variant: the config file is asked before the environment.
get_env_or_file_file_first(env_value, file_value, description, default) ==
    LET value == or_else(filter_not_empty(
                     or_else(filter_not_empty(map_trim(file_value)),
                             map_trim(env_value))),
                     default)
    IN  IF IsSome(value) THEN Ok(Unwrap(value))
        ELSE Err(Context(<<description, " is not set">>, "none"))

\* env_value is std::env::var(env_key).ok()
get_env_or_file(env_value, file_value, description, default) ==
    LET value == or_else(filter_not_empty(
                     or_else(filter_not_empty(map_trim(env_value)),
                             map_trim(file_value))),
                     default)
    IN  IF IsSome(value) THEN Ok(Unwrap(value))
        ELSE Err(Context(<<description, " is not set">>, "none"))

Config_load(sys) ==
    IF ~sys.config_dir THEN Err(Context("Failed to get config directory", "none"))
    ELSE IF sys.file.exists /\ ~sys.file.read
    THEN Err(Context("Failed to read config file: {:?}", "io"))
    ELSE IF sys.file.exists /\ ~sys.file.parse
    THEN Err(Context("Failed to parse config file: {:?}", "toml"))
    ELSE LET file_base_url == IF sys.file.exists THEN sys.file.base_url ELSE None
             file_auth_token == IF sys.file.exists THEN sys.file.auth_token ELSE None
             base_url == get_env_or_file(sys.ANTHROPIC_BASE_URL, file_base_url,
                             "ANTHROPIC_BASE_URL or api.base_url in config file",
                             Some(DEFAULT_BASE_URL))
             auth_token == get_env_or_file(sys.ANTHROPIC_AUTH_TOKEN, file_auth_token,
                             "ANTHROPIC_AUTH_TOKEN or api.auth_token in config file",
                             None)
         IN  IF ~base_url.ok THEN base_url
             ELSE IF ~auth_token.ok THEN auth_token
             ELSE Ok([base_url |-> base_url.v, auth_token |-> auth_token.v])

\* Config::domain: url::Url::parse(&self.base_url)
Url_parse(text) ==
    IF text \in {DEFAULT_BASE_URL, <<"u">>} THEN Ok(text)
    ELSE Err(Context("Failed to parse ANTHROPIC_BASE_URL", "url"))

\* the texts an environment variable or a field of the file may hold
Texts == {<<>>, <<" ">>, <<" ", "u", " ">>, <<"x">>}
OptTexts == {None} \cup {Some(s) : s \in Texts}

NoFile == [exists |-> FALSE, read |-> FALSE, parse |-> FALSE,
           base_url |-> None, auth_token |-> None]

Files ==
    {NoFile,
     [NoFile EXCEPT !.exists = TRUE],
     [NoFile EXCEPT !.exists = TRUE, !.read = TRUE]}
    \cup {[exists |-> TRUE, read |-> TRUE, parse |-> TRUE,
           base_url |-> b, auth_token |-> a] : b \in OptTexts, a \in OptTexts}

Systems ==
    {[config_dir |-> dir, file |-> f,
      ANTHROPIC_BASE_URL |-> eb, ANTHROPIC_AUTH_TOKEN |-> ea] :
        dir \in BOOLEAN, f \in Files, eb \in OptTexts, ea \in OptTexts}

\* without a config directory there is no path to find a file at
StartupInputs == {sys \in Systems : ~sys.config_dir => sys.file = NoFile}

(***************************************************************************)
(* The one-shot output of main (main.rs).                                  *)
(***************************************************************************)
\* format!("{:.0}", p) for p >= 0 in tenths: to the nearest integer, ties to even
RoundPct(p) ==
    LET q == p \div 10
        r == p % 10
    IN  IF r > 5 \/ (r = 5 /\ q % 2 = 1) THEN q + 1 ELSE q

\* `p as i64` for p >= 0 in tenths: the fraction is dropped
TruncPct(p) == p \div 10

\* max_pct and text after the loop over the first n limits; <<>> is the empty text
RECURSIVE waybar_scan(_, _)
waybar_scan(limits, n) ==
    IF n = 0 THEN [max_pct |-> 0, text |-> <<>>]
    ELSE LET before == waybar_scan(limits, n - 1)
             limit == limits[n]
         IN  IF IsSome(limit.percentage) /\ Unwrap(limit.percentage) > before.max_pct
             THEN [max_pct |-> Unwrap(limit.percentage),
                   text |-> <<limit.limit_type, RoundPct(Unwrap(limit.percentage))>>]
             ELSE before

\* Variant: the class thresholds are inclusive.
waybar_output_inclusive ==
    IF IsSome(get_quota)
    THEN LET quota == Unwrap(get_quota)
             scan == waybar_scan(quota.limits, Len(quota.limits))
         IN  [text |-> IF scan.text = <<>> THEN <<"GLM: N/A">> ELSE scan.text,
              tooltip |-> quota.limits,
              class |-> IF scan.max_pct >= 900 THEN "critical"
                        ELSE IF scan.max_pct >= 750 THEN "warning"
                        ELSE "normal",
              percentage |-> TruncPct(scan.max_pct)]
    ELSE [text |-> <<"GLM: Err">>,
          tooltip |-> IF IsSome(get_last_error) THEN Unwrap(get_last_error)
                      ELSE [text |-> "No data"],
          class |-> "critical"]

\* Variant: a snapshot without limits is reported like a failure.
waybar_output_empty_is_error ==
    IF IsSome(get_quota) /\ Len(Unwrap(get_quota).limits) > 0
    THEN LET quota == Unwrap(get_quota)
             scan == waybar_scan(quota.limits, Len(quota.limits))
         IN  [text |-> IF scan.text = <<>> THEN <<"GLM: N/A">> ELSE scan.text,
              tooltip |-> quota.limits,
              class |-> IF scan.max_pct > 900 THEN "critical"
                        ELSE IF scan.max_pct > 750 THEN "warning"
                        ELSE "normal",
              percentage |-> TruncPct(scan.max_pct)]
    ELSE [text |-> <<"GLM: Err">>,
          tooltip |-> IF IsSome(get_last_error) THEN Unwrap(get_last_error)
                      ELSE [text |-> "No data"],
          class |-> "critical"]

\* The tooltip is carried as the limits whose format_limit lines it holds.
waybar_output ==
    IF IsSome(get_quota)
    THEN LET quota == Unwrap(get_quota)
             scan == waybar_scan(quota.limits, Len(quota.limits))
         IN  [text |-> IF scan.text = <<>> THEN <<"GLM: N/A">> ELSE scan.text,
              tooltip |-> quota.limits,
              class |-> IF scan.max_pct > 900 THEN "critical"
                        ELSE IF scan.max_pct > 750 THEN "warning"
                        ELSE "normal",
              percentage |-> TruncPct(scan.max_pct)]
    ELSE [text |-> <<"GLM: Err">>,
          tooltip |-> IF IsSome(get_last_error) THEN Unwrap(get_last_error)
                      ELSE [text |-> "No data"],
          class |-> "critical"]

(***************************************************************************)
(* The renderer (ui.rs), as what it puts on the terminal.  The body is the *)
(* sequence of views render_main_content draws.                            *)
(***************************************************************************)
\* models.rs:78-81: the time left to the deadline, 0 once it has passed
seconds_until_refresh(t) == IF next_refresh > t THEN next_refresh - t ELSE 0

render_header(t) ==
    [last_update |-> last_update, next_refresh_in |-> seconds_until_refresh(t)]

\* Variant: a stored snapshot is shown before a stored error is looked at.
render_main_content_data_first ==
    IF is_loading THEN <<"loading">>
    ELSE IF IsSome(quota_data) THEN <<"quota_limits">>
    ELSE IF IsSome(last_error) THEN <<"error">>
    ELSE <<"no_data">>

render_main_content ==
    IF is_loading THEN <<"loading">>
    ELSE IF IsSome(last_error) THEN <<"error">>
    ELSE IF ~IsSome(quota_data) THEN <<"no_data">>
    ELSE <<"quota_limits">>

render_footer ==
    IF is_loading THEN "Loading..."
    ELSE IF IsSome(last_error) THEN "Error"
    ELSE IF IsSome(quota_data) THEN "Connected"
    ELSE "Waiting"

\* too_small: the frame is lower than 10 rows or narrower than 40 columns
render(too_small, t) ==
    IF too_small THEN [layout |-> "too_small"]
    ELSE [layout |-> "normal",
          header |-> render_header(t),
          body |-> render_main_content,
          footer |-> render_footer]

(***************************************************************************)
(* Format helpers (models.rs:93-129).  A String is the sequence of its     *)
(* characters; "#" and "." stand for the filled and the empty block glyph. *)
(***************************************************************************)
MaxAbs == 1100
MaxWidth == 12

DigitChars == <<"0", "1", "2", "3", "4", "5", "6", "7", "8", "9">>
IsDigit(c) == \E d \in 1..10 : DigitChars[d] = c

RECURSIVE nat_to_string(_)
nat_to_string(n) ==
    IF n < 10 THEN <<DigitChars[n + 1]>>
    ELSE Append(nat_to_string(n \div 10), DigitChars[(n % 10) + 1])

\* i64::to_string: a minus sign for negative values, then the digits
i64_to_string(v) == IF v < 0 THEN <<"-">> \o nat_to_string(-v) ELSE nat_to_string(v)

\* chars().rev()
Reverse(s) == [i \in 1..Len(s) |-> s[Len(s) + 1 - i]]

\* models.rs:104-109: the loop over the reversed characters, i counted from 0
RECURSIVE format_int_loop(_, _, _)
format_int_loop(chars, i, result) ==
    IF i = Len(chars) THEN result
    ELSE format_int_loop(chars, i + 1,
             Append(IF i > 0 /\ i % 3 = 0 THEN Append(result, " ") ELSE result,
                    chars[i + 1]))

format_int(val) ==
    IF IsSome(val)
    THEN Reverse(format_int_loop(Reverse(i64_to_string(Unwrap(val))), 0, <<>>))
    ELSE <<"N", "/", "A">>

filled_glyph == "#"
empty_glyph == "."

\* str::repeat
repeat(c, n) == [i \in 1..n |-> c]

\* f64::clamp on tenths of a percent
clamp(x, lo, hi) == IF x < lo THEN lo ELSE IF x > hi THEN hi ELSE x

\* Variant: the filled count is cut off instead of rounded.
progress_bar_floor(percentage, width) ==
    LET pct == clamp(IF IsSome(percentage) THEN Unwrap(percentage) ELSE 0, 0, 1000)
        filled == clamp((pct * width) \div 1000, 0, width)
        empty == width - filled
    IN  <<"[">> \o repeat(filled_glyph, filled) \o repeat(empty_glyph, empty)
          \o <<"]", " ">> \o nat_to_string(RoundPct(pct)) \o <<"%">>

\* percentage in tenths of a percent; (pct / 100.0 * width).round() is the
\* nearest integer to pct * width / 1000, a half going up
progress_bar(percentage, width) ==
    LET pct == clamp(IF IsSome(percentage) THEN Unwrap(percentage) ELSE 0, 0, 1000)
        filled == clamp((2 * pct * width + 1000) \div 2000, 0, width)
        empty == width - filled
    IN  <<"[">> \o repeat(filled_glyph, filled) \o repeat(empty_glyph, empty)
          \o <<"]", " ">> \o nat_to_string(RoundPct(pct)) \o <<"%">>

\* the integers format_int is called with: every value up to MaxAbs in size,
\* and values with more groups
IntInputs ==
    (-MaxAbs..MaxAbs)
        \cup {-1234567, -1000000, -999999, -123456, -100000, -12345,
              12345, 100000, 123456, 999999, 1000000, 1234567, 2147483647}

\* percentages in tenths of a percent, none of them on a half
BarPercentages ==
    {-1000, -1, 0, 1, 4, 49, 51, 100, 125, 250, 333, 404, 496, 500, 504, 580,
     666, 750, 904, 949, 951, 996, 1000, 1004, 1500, 99999}

Calls ==
    {[fn |-> "format_int", val |-> v] :
        v \in {None} \cup {Some(n) : n \in IntInputs}}
    \cup {[fn |-> "progress_bar", percentage |-> q, width |-> w] :
            q \in {None} \cup {Some(x) : x \in BarPercentages},
            w \in 0..MaxWidth}

(***************************************************************************)
(* main and run_app as steps.  pc: "main" (before the initial              *)
(* refresh_data), "fetch_main" / "fetch_tick" (a fetch awaited by main /   *)
(* by tick), "branch" (main.rs:60), "draw", "poll", "exit".                *)
(***************************************************************************)
ProgramInit ==
    /\ now = 0
    /\ AppState_new(now)
    /\ waybar \in BOOLEAN
    /\ pc = "main"
    /\ last_tick = 0
    /\ stdout = <<>>
    /\ fetch_count = 0
    /\ response = None
    /\ last_fetch = None
    /\ last_op = "new"
    /\ last_key = ""
    /\ force_pending = FALSE
    /\ fetch_done_at = None
    /\ screen = None
    /\ typed = None

Init ==
    /\ ProgramInit
    /\ call = None
    /\ ret = None

\* main.rs:57: the initial refresh_data sends its request
MainRefresh ==
    /\ pc = "main"
    /\ fetch_count < MaxFetches
    /\ pc' = "fetch_main"
    /\ fetch_count' = fetch_count + 1
    /\ last_op' = "refresh_data"
    /\ UNCHANGED <<app_state, waybar, now, last_tick, stdout, response, last_fetch,
                   last_key, force_pending,
                   fetch_done_at, screen, helper_vars, typed>>

\* the awaited fetch returns and refresh_data stores its result
FetchReturn(R) ==
    /\ pc \in {"fetch_main", "fetch_tick"}
    /\ \E r \in R, d \in 0..MaxFetchTime :
          /\ now + d <= MaxTime
          /\ now' = now + d
          /\ response' = Some(r)
          /\ last_fetch' = Some(fetch_quota_limit(r))
          /\ fetch_done_at' = Some(now')
          /\ refresh_data_return(fetch_quota_limit(r), now')
    \* a key typed while run_app was suspended in the fetch waits in the terminal
    /\ typed' \in IF pc = "fetch_tick" THEN {None} \cup {Some(key) : key \in Keys}
                  ELSE {None}
    /\ pc' = IF pc = "fetch_main" THEN "branch"
             ELSE IF should_quit THEN "exit" ELSE "draw"
    /\ last_op' = "fetch_return"
    /\ UNCHANGED <<waybar, last_tick, stdout, fetch_count, last_key, force_pending,
                   screen, helper_vars>>

\* Variant: the one-shot branch does not return and falls into the TUI.
WaybarOutput_no_return ==
    /\ pc = "branch"
    /\ waybar
    /\ stdout' = Append(stdout, waybar_output)
    /\ pc' = "draw"
    /\ last_op' = "print"
    /\ UNCHANGED <<app_state, waybar, now, last_tick, fetch_count, response,
                   last_fetch, last_key, force_pending,
                   fetch_done_at, screen, helper_vars, typed>>

\* main.rs:60-116: print the JSON object and return
WaybarOutput ==
    /\ pc = "branch"
    /\ waybar
    /\ stdout' = Append(stdout, waybar_output)
    /\ pc' = "exit"
    /\ last_op' = "print"
    /\ UNCHANGED <<app_state, waybar, now, last_tick, fetch_count, response,
                   last_fetch, last_key, force_pending,
                   fetch_done_at, screen, helper_vars, typed>>

\* main.rs:119-120, terminal.rs:46: enter run_app
EnterTui ==
    /\ pc = "branch"
    /\ ~waybar
    /\ last_tick' = now
    /\ pc' = "draw"
    /\ last_op' = "run_app"
    /\ UNCHANGED <<app_state, waybar, now, stdout, fetch_count, response,
                   last_fetch, last_key, force_pending,
                   fetch_done_at, screen, helper_vars, typed>>

\* Variant: the terminal is also drawn while a fetch of the loop is in flight.
Draw_during_fetch ==
    /\ pc \in {"draw", "fetch_tick"}
    /\ \E d \in 0..MaxDrawTime, too_small \in BOOLEAN :
          /\ now + d <= MaxTime
          /\ now' = now + d
          /\ screen' = Some(render(too_small, now'))
    /\ pc' = IF pc = "draw" THEN "poll" ELSE pc
    /\ last_op' = "draw"
    /\ UNCHANGED <<app_state, waybar, last_tick, stdout, fetch_count, response,
                   last_fetch, last_key, force_pending,
                   fetch_done_at, helper_vars, typed>>

\* terminal.rs:50: terminal.draw
Draw ==
    /\ pc = "draw"
    /\ \E d \in 0..MaxDrawTime, too_small \in BOOLEAN :
          /\ now + d <= MaxTime
          /\ now' = now + d
          /\ screen' = Some(render(too_small, now'))
    /\ pc' = "poll"
    /\ last_op' = "draw"
    /\ UNCHANGED <<app_state, waybar, last_tick, stdout, fetch_count, response,
                   last_fetch, last_key, force_pending,
                   fetch_done_at, helper_vars, typed>>

\* terminal.rs:53: tick_rate.saturating_sub(last_tick.elapsed())
poll_timeout == IF TickRate > now - last_tick THEN TickRate - (now - last_tick) ELSE 0

\* app.rs:51-55 from inside run_app: the due check, and the request if due
tick(t) ==
    IF should_refresh_now(t)
    THEN /\ fetch_count < MaxFetches
         /\ fetch_count' = fetch_count + 1
         /\ pc' = "fetch_tick"
    ELSE /\ fetch_count' = fetch_count
         /\ pc' = IF should_quit THEN "exit" ELSE "draw"

\* Variant: the key branch also ticks the application.
PollKey_and_tick ==
    /\ pc = "poll"
    /\ \E key \in Keys, d \in 0..poll_timeout :
          /\ IsSome(typed) => (key = Unwrap(typed) /\ d = 0)
          /\ now + d <= MaxTime
          /\ now' = now + d
          /\ handle_key_event(key, now')
          /\ last_key' = key
          /\ force_pending' = (force_pending \/ key \in {"r", "R"})
    /\ IF should_quit' THEN pc' = "exit" /\ fetch_count' = fetch_count
       ELSE IF now' >= next_refresh'
       THEN fetch_count < MaxFetches /\ fetch_count' = fetch_count + 1 /\ pc' = "fetch_tick"
       ELSE fetch_count' = fetch_count /\ pc' = "draw"
    /\ typed' = None
    /\ last_op' = "key"
    /\ UNCHANGED <<waybar, last_tick, stdout, response, last_fetch,
                   fetch_done_at, screen, helper_vars>>

\* Variant: the key branch does not look at should_quit.
PollKey_no_quit_check ==
    /\ pc = "poll"
    /\ \E key \in Keys, d \in 0..poll_timeout :
          /\ IsSome(typed) => (key = Unwrap(typed) /\ d = 0)
          /\ now + d <= MaxTime
          /\ now' = now + d
          /\ handle_key_event(key, now')
          /\ last_key' = key
          /\ force_pending' = (force_pending \/ key \in {"r", "R"})
    /\ pc' = "draw"
    /\ typed' = None
    /\ last_op' = "key"
    /\ UNCHANGED <<waybar, last_tick, stdout, fetch_count, response, last_fetch,
                   fetch_done_at, screen, helper_vars>>

\* terminal.rs:56-63: poll reports an event within the timeout, and it is a key
PollKey ==
    /\ pc = "poll"
    /\ \E key \in Keys, d \in 0..poll_timeout :
          /\ IsSome(typed) => (key = Unwrap(typed) /\ d = 0)
          /\ now + d <= MaxTime
          /\ now' = now + d
          /\ handle_key_event(key, now')
          /\ last_key' = key
          /\ force_pending' = (force_pending \/ key \in {"r", "R"})
    /\ pc' = IF should_quit' THEN "exit" ELSE "draw"
    /\ typed' = None
    /\ last_op' = "key"
    /\ UNCHANGED <<waybar, last_tick, stdout, fetch_count, response, last_fetch,
                   fetch_done_at, screen, helper_vars>>

\* terminal.rs:56-57: the event is not a key (mouse, resize, focus, paste)
PollOther ==
    /\ pc = "poll"
    /\ \E d \in 0..poll_timeout :
          /\ IsSome(typed) => d = 0
          /\ now + d <= MaxTime
          /\ now' = now + d
    /\ pc' = "draw"
    /\ last_op' = "event"
    /\ UNCHANGED <<app_state, waybar, last_tick, stdout, fetch_count, response,
                   last_fetch, last_key, force_pending,
                   fetch_done_at, screen, helper_vars, typed>>

\* terminal.rs:64-72: poll times out; last_tick is reset and the application ticks
PollTimeout ==
    /\ pc = "poll"
    /\ typed = None
    /\ now + poll_timeout <= MaxTime
    /\ now' = now + poll_timeout
    /\ last_tick' = now'
    /\ tick(now')
    /\ force_pending' = FALSE
    /\ last_op' = "tick"
    /\ UNCHANGED <<app_state, waybar, stdout, response, last_fetch, last_key,
                   fetch_done_at, screen, helper_vars, typed>>

Next ==
    \/ MainRefresh
    \/ FetchReturn(LoopResponses)
    \/ WaybarOutput
    \/ EnterTui
    \/ Draw
    \/ PollKey
    \/ PollOther
    \/ PollTimeout

Spec == Init /\ [][Next]_vars

(***************************************************************************)
(* The same program with what its scheduling guarantees: every step of     *)
(* main and of the loop is eventually taken, a started fetch returns, and  *)
(* the input wait ends, either with an event or with its timeout.  Whether *)
(* an event arrives within the timeout is up to the terminal.              *)
(***************************************************************************)
SpecLive ==
    /\ Init
    /\ [][Next]_vars
    /\ WF_vars(MainRefresh)
    /\ WF_vars(FetchReturn(LoopResponses))
    /\ WF_vars(WaybarOutput)
    /\ WF_vars(EnterTui)
    /\ WF_vars(Draw)
    /\ WF_vars(PollKey \/ PollOther \/ PollTimeout)

(***************************************************************************)
(* The Format helpers called on their own: one call, one result.           *)
(***************************************************************************)
InitFormat ==
    /\ ProgramInit
    /\ call \in {Some(c) : c \in Calls}
    /\ ret = None

FormatInt ==
    /\ ret = None
    /\ Unwrap(call).fn = "format_int"
    /\ ret' = Some(format_int(Unwrap(call).val))
    /\ UNCHANGED <<app_state, waybar, pc, now, last_tick, stdout, fetch_count,
                   response, last_fetch, last_op, last_key, force_pending,
                   fetch_done_at, screen, call, typed>>

ProgressBar ==
    /\ ret = None
    /\ Unwrap(call).fn = "progress_bar"
    /\ ret' = Some(progress_bar(Unwrap(call).percentage, Unwrap(call).width))
    /\ UNCHANGED <<app_state, waybar, pc, now, last_tick, stdout, fetch_count,
                   response, last_fetch, last_op, last_key, force_pending,
                   fetch_done_at, screen, call, typed>>

NextFormat == FormatInt \/ ProgressBar

SpecFormat == InitFormat /\ [][NextFormat]_vars

(***************************************************************************)
(* main from its first line to the entry of the event loop: Config::load,  *)
(* App::new, the initial refresh, and the branch on --waybar.  The         *)
(* application state holds, before App::new has run, what App::new is      *)
(* going to construct.                                                     *)
(***************************************************************************)
InitStartup ==
    /\ AppState_new(0)
    /\ waybar \in BOOLEAN
    /\ now = 0
    /\ pc = "load"
    /\ last_tick = 0
    /\ stdout = <<>>
    /\ fetch_count = 0
    /\ response = None
    /\ last_fetch = None
    /\ last_op = "start"
    /\ last_key = ""
    /\ force_pending = FALSE
    /\ fetch_done_at = None
    /\ screen = None
    /\ typed = None
    /\ call \in {Some(sys) : sys \in StartupInputs}
    /\ ret = None

\* main.rs:41-42: an Err of Config::load ends main
ConfigLoad ==
    /\ pc = "load"
    /\ ret' = Some(Config_load(Unwrap(call)))
    /\ pc' = IF Config_load(Unwrap(call)).ok THEN "new" ELSE "exit"
    /\ last_op' = "load"
    /\ UNCHANGED <<app_state, waybar, now, last_tick, stdout, fetch_count, response,
                   last_fetch, last_key, force_pending, fetch_done_at, screen,
                   call, typed>>

\* main.rs:53-54, app.rs:18-35: an Err of config.endpoints() ends main
AppNew ==
    /\ pc = "new"
    /\ pc' = IF Url_parse(Unwrap(ret).v.base_url).ok THEN "main" ELSE "exit"
    /\ last_op' = "new"
    /\ UNCHANGED <<app_state, waybar, now, last_tick, stdout, fetch_count, response,
                   last_fetch, last_key, force_pending, fetch_done_at, screen,
                   helper_vars, typed>>

NextStartup ==
    \/ ConfigLoad
    \/ AppNew
    \/ MainRefresh
    \/ FetchReturn(LoopResponses)
    \/ WaybarOutput
    \/ EnterTui

SpecStartup == InitStartup /\ [][NextStartup]_vars

(***************************************************************************)
(* One run in one-shot mode, against every response of Responses.          *)
(***************************************************************************)
InitOneShot == Init /\ waybar = TRUE

NextOneShot ==
    \/ MainRefresh
    \/ FetchReturn(Responses)
    \/ WaybarOutput

SpecOneShot == InitOneShot /\ [][NextOneShot]_vars

(***************************************************************************)
(* Properties.                                                             *)
(***************************************************************************)
ForceKeys == {"r", "R"}
FetchReturned == last_op = "fetch_return"

\* C1: a refresh whose fetch fails leaves quota_data as it was (a stored
\* snapshot stays, None stays None) and sets last_error to the text of the
\* failure.
C1_FailedRefreshKeepsData ==
    [][(last_op' = "fetch_return" /\ ~Unwrap(last_fetch').ok)
          => /\ quota_data' = quota_data
             /\ last_error' = Some(Unwrap(last_fetch').e.msg)]_vars

\* a failed refresh after an earlier success and a forced refresh: the snapshot is still there
C1_Witness ==
    /\ FetchReturned
    /\ ~Unwrap(last_fetch).ok
    /\ IsSome(quota_data)
    /\ IsSome(last_error)
    /\ last_key \in ForceKeys

\* C2: a refresh whose fetch succeeds stores exactly the returned snapshot,
\* clears last_error and sets last_update to the completion time.
C2_SuccessfulRefreshReplaces ==
    [][(last_op' = "fetch_return" /\ Unwrap(last_fetch').ok)
          => /\ quota_data' = Some(Unwrap(last_fetch').v)
             /\ last_error' = None
             /\ last_update' = Some(now')]_vars

\* a second, successful fetch has stored its snapshot
C2_Witness ==
    /\ FetchReturned
    /\ Unwrap(last_fetch).ok
    /\ fetch_count >= 2
    /\ quota_data = Some(Unwrap(last_fetch).v)
    /\ last_update = Some(now)
    /\ now > 0

\* C3: after every completed fetch attempt the deadline is the completion
\* time plus one refresh interval; apart from that only a forced refresh
\* changes the deadline, and it sets it to the current time.
C3_DeadlineMoves ==
    [][/\ last_op' = "fetch_return" => next_refresh' = now' + refresh_interval
       /\ (last_op' = "key" /\ last_key' \in ForceKeys) => next_refresh' = now'
       /\ next_refresh' # next_refresh
             => \/ last_op' = "fetch_return"
                \/ last_op' = "key" /\ last_key' \in ForceKeys]_vars

\* a failed fetch in the event loop has moved the deadline one interval ahead
C3_Witness ==
    /\ FetchReturned
    /\ ~Unwrap(last_fetch).ok
    /\ fetch_count >= 2
    /\ refresh_interval > 0
    /\ next_refresh = now + refresh_interval

\* C4: the first scheduler evaluation after a forced refresh finds the
\* refresh due (tick goes on to fetch), whatever was handled in between.
C4_ForcedRefreshIsDue ==
    [][(last_op' = "tick" /\ force_pending) => pc' = "fetch_tick"]_vars

\* a forced refresh less than one interval after a successful fetch, then
\* another key, then the tick that fetches
C4_Witness ==
    /\ last_op = "tick"
    /\ pc = "fetch_tick"
    /\ is_loading
    /\ last_key = "x"
    /\ IsSome(last_update)
    /\ now < Unwrap(last_update) + refresh_interval

\* C5: handling a key never fetches; the force-refresh key sets the deadline
\* to the current time and is_loading to true; a fetch starts only in the
\* tick branch (or as main's initial refresh).
C5_KeysNeverFetch ==
    [][/\ last_op' = "key"
             => /\ fetch_count' = fetch_count
                /\ pc' \in {"draw", "exit"}
                /\ last_key' \in ForceKeys => (next_refresh' = now' /\ is_loading')
       /\ fetch_count' # fetch_count => last_op' \in {"tick", "refresh_data"}]_vars

\* the force-refresh key handled while a refresh was not due
C5_Witness ==
    /\ last_op = "key"
    /\ last_key \in ForceKeys
    /\ next_refresh = now
    /\ is_loading
    /\ pc = "draw"
    /\ IsSome(last_fetch)
    /\ refresh_interval > 0
    /\ fetch_count = 1

\* The response of the one fetch came in whole, with this status class.
Got2xx ==
    /\ IsSome(response)
    /\ Unwrap(response).send /\ Unwrap(response).read
    /\ Unwrap(response).status \in 200..299

GotNon2xx ==
    /\ IsSome(response)
    /\ Unwrap(response).send
    /\ Unwrap(response).status \notin 200..299

CarriesStatus(result, status) ==
    /\ ~result.ok
    /\ "status" \in DOMAIN result.e.msg
    /\ result.e.msg.status = status

\* C6 as stated: a response with a non-2xx status never yields a snapshot
\* and always yields an Error that carries the observed status code.
C6_Non2xxCarriesStatus ==
    GotNon2xx => CarriesStatus(Unwrap(last_fetch), Unwrap(response).status)

\* C6, amended: a response with a non-2xx status never yields a snapshot,
\* whatever its body; when its body was read the Error carries the observed
\* status code and that body, and when reading the body failed the Error is
\* the read failure, which carries no status code.
C6_Non2xxIsError ==
    GotNon2xx =>
        LET r == Unwrap(response)
            result == Unwrap(last_fetch)
        IN  /\ ~result.ok
            /\ quota_data = None
            /\ r.read => (CarriesStatus(result, r.status) /\ result.e.msg.body = r.body)
            /\ ~r.read => result.e.msg = [text |-> "Failed to read response body"]

\* status 404 with a body that is a valid snapshot of two limits
C6_Witness ==
    /\ FetchReturned
    /\ Unwrap(response).read
    /\ Unwrap(response).status = 404
    /\ Unwrap(response).body = SnapshotJson(<<SampleLimit, OtherLimit>>)
    /\ CarriesStatus(Unwrap(last_fetch), 404)

C8_WrappedEqualsBare ==
    (Got2xx /\ HasField(Unwrap(response).body, "data")
            /\ Unwrap(response).body.f["data"] \in SnapshotJsons
            /\ Unwrap(response).body = Wrap(Unwrap(response).body.f["data"]))
        => LET bare == Delivered(Unwrap(response).status, Unwrap(response).body.f["data"])
           IN  /\ Unwrap(last_fetch).ok
               /\ fetch_quota_limit(bare).ok
               /\ Unwrap(last_fetch).v = fetch_quota_limit(bare).v

\* an enveloped snapshot of two limits, one with all fields, was decoded and stored
C8_Witness ==
    /\ FetchReturned
    /\ Got2xx
    /\ Unwrap(response).body = Wrap(SnapshotJson(<<OtherLimit, SampleLimit>>))
    /\ Unwrap(last_fetch).ok
    /\ Len(Unwrap(last_fetch).v.limits) = 2
    /\ Unwrap(last_fetch).v.limits[1].limit_type = "TIME_LIMIT"
    /\ Unwrap(last_fetch).v.limits[1].percentage = Some(756)
    /\ Unwrap(last_fetch).v.limits[2].usage = None
    /\ quota_data = Some(Unwrap(last_fetch).v)

\* C9: in one-shot mode the program fetches once, prints one JSON object and
\* exits, and never draws, polls or ticks, whether the fetch failed or not.
C9_OneShotNeverLoops ==
    waybar =>
        /\ pc \in {"main", "fetch_main", "branch", "exit"}
        /\ last_op \in {"new", "refresh_data", "fetch_return", "print"}
        /\ fetch_count = (IF pc = "main" THEN 0 ELSE 1)
        /\ Len(stdout) = (IF pc = "exit" THEN 1 ELSE 0)
        /\ last_tick = 0

\* the one-shot run has ended after a failed fetch, with one object printed
C9_Witness ==
    /\ waybar
    /\ pc = "exit"
    /\ ~Unwrap(last_fetch).ok
    /\ Len(stdout) = 1
    /\ fetch_count = 1

\* The percentages of the limits of a snapshot that have one.
Percentages(limits) ==
    {Unwrap(limits[i].percentage) : i \in {k \in 1..Len(limits) : IsSome(limits[k].percentage)}}

MaxOf(S) == CHOOSE m \in S : \A x \in S : x <= m

\* C10: in one-shot mode, when some limit of the fetched snapshot has a
\* percentage, the text is "{type}: {pct}%" of a limit with the maximum
\* percentage and the percentage field is that maximum (its integer part),
\* also when the maximum is 0.
C10_HighestLimitShown ==
    (last_op = "print" /\ IsSome(last_fetch) /\ Unwrap(last_fetch).ok)
        => LET limits == Unwrap(last_fetch).v.limits
               out == stdout[1]
           IN  Percentages(limits) # {}
                  => LET m == MaxOf(Percentages(limits))
                     IN  /\ out.percentage = TruncPct(m)
                         /\ \E i \in 1..Len(limits) :
                               /\ limits[i].percentage = Some(m)
                               /\ out.text = <<limits[i].limit_type, RoundPct(m)>>

\* the same, for snapshots whose maximum percentage is above 0 (what the code does)
C10_HighestPositiveLimitShown ==
    (last_op = "print" /\ IsSome(last_fetch) /\ Unwrap(last_fetch).ok)
        => LET limits == Unwrap(last_fetch).v.limits
               out == stdout[1]
           IN  (Percentages(limits) # {} /\ MaxOf(Percentages(limits)) > 0)
                  => LET m == MaxOf(Percentages(limits))
                     IN  /\ out.percentage = TruncPct(m)
                         /\ \E i \in 1..Len(limits) :
                               /\ limits[i].percentage = Some(m)
                               /\ out.text = <<limits[i].limit_type, RoundPct(m)>>

\* The one-shot run has printed its object.
Printed == last_op = "print"

\* C11: in one-shot mode the class follows the maximum percentage p over
\* all limits: critical above 90, warning above 75 up to 90, normal
\* otherwise; with no percentage at all the text is "GLM: N/A", the
\* percentage 0 and the class normal.
C11_ClassByMaximum ==
    (Printed /\ Unwrap(last_fetch).ok)
        => LET limits == Unwrap(last_fetch).v.limits
               out == stdout[1]
           IN  IF Percentages(limits) = {}
               THEN /\ out.text = <<"GLM: N/A">>
                    /\ out.percentage = 0
                    /\ out.class = "normal"
               ELSE LET p == MaxOf(Percentages(limits))
                    IN  out.class = IF p > 900 THEN "critical"
                                    ELSE IF p > 750 THEN "warning"
                                    ELSE "normal"

\* a snapshot whose maximum is exactly 90: warning, not critical
C11_Witness ==
    /\ Printed
    /\ Unwrap(last_fetch).ok
    /\ Len(Unwrap(last_fetch).v.limits) = 2
    /\ MaxOf(Percentages(Unwrap(last_fetch).v.limits) \cup {0}) = 900
    /\ stdout[1].class = "warning"

\* C12: in one-shot mode the failure object (text "GLM: Err", class
\* critical, the stored error text as tooltip, no percentage) is printed if
\* and only if the fetch failed; a successful fetch prints the success
\* object, also for a snapshot without limits.
C12_FailureObjectIffFailed ==
    Printed =>
        LET out == stdout[1]
            result == Unwrap(last_fetch)
        IN  /\ (out.text = <<"GLM: Err">>) <=> ~result.ok
            /\ ~result.ok => out = [text |-> <<"GLM: Err">>,
                                    tooltip |-> result.e.msg,
                                    class |-> "critical"]
            /\ result.ok => DOMAIN out = {"text", "tooltip", "class", "percentage"}

\* a successful fetch of a snapshot without limits has printed the success object
C12_Witness ==
    /\ Printed
    /\ Unwrap(last_fetch).ok
    /\ Unwrap(last_fetch).v.limits = <<>>
    /\ stdout[1].text = <<"GLM: N/A">>
    /\ stdout[1].percentage = 0

\* The last step drew the normal layout (the frame was large enough).
DrewLayout == last_op = "draw" /\ Unwrap(screen).layout = "normal"

\* C13: the body view is chosen by strict priority from the state the
\* renderer is given: loading if is_loading; else error if last_error is
\* present, also when a snapshot is stored; else the no-data placeholder if
\* no snapshot is stored; else the quota limits.  Exactly one view is drawn.
C13_BodyViewByPriority ==
    DrewLayout =>
        LET body == Unwrap(screen).body
        IN  /\ Len(body) = 1
            /\ body[1] = "loading" <=> is_loading
            /\ body[1] = "error" <=> (~is_loading /\ last_error # None)
            /\ body[1] = "no_data"
                  <=> (~is_loading /\ last_error = None /\ quota_data = None)
            /\ body[1] = "quota_limits"
                  <=> (~is_loading /\ last_error = None /\ quota_data # None)

\* the error view drawn over a stored snapshot
C13_Witness ==
    /\ DrewLayout
    /\ Unwrap(screen).body = <<"error">>
    /\ quota_data # None
    /\ last_error # None
    /\ ~is_loading

\* C14: while a fetch started by the scheduler's due check is in flight,
\* is_loading is true, for a timer-triggered fetch as for a forced one.
C14_LoadingWhileTickFetchInFlight == pc = "fetch_tick" => is_loading

\* C15: is_loading is false right after every fetch that returns, with
\* success or with failure, and once false it becomes true only by a
\* forced-refresh key.
C15_IdleAfterFetch ==
    [][/\ last_op' = "fetch_return" => ~is_loading'
       /\ (~is_loading /\ is_loading') => (last_op' = "key" /\ last_key' \in ForceKeys)
      ]_vars

\* a fetch started in the loop has returned with a failure
C15_Witness ==
    /\ last_op = "fetch_return"
    /\ fetch_count >= 2
    /\ IsSome(last_error)
    /\ ~is_loading

QuitKeys == {"q", "Q"}

\* C16: handling a quit key sets should_quit and ends the loop in that
\* iteration, and nothing happens after the loop has ended: no draw, poll,
\* tick or fetch, also when a refresh is due or a forced refresh is pending.
C16_QuitEndsLoop ==
    [][/\ (last_op' = "key" /\ last_key' \in QuitKeys)
             => (should_quit' /\ pc' = "exit")
       /\ pc # "exit"
       /\ should_quit' => pc' = "exit"
      ]_vars

\* the loop ended by a quit key while a forced refresh was pending and due
C16_Witness ==
    /\ pc = "exit"
    /\ last_op = "key"
    /\ last_key \in QuitKeys
    /\ should_quit
    /\ force_pending
    /\ is_loading
    /\ should_refresh_now(now)

\* The call that has returned, and its result.
Returned(fn) == IsSome(ret) /\ Unwrap(call).fn = fn

\* the characters of s between the positions a and b, both left out
Between(s, a, b) == [i \in 1..(b - a - 1) |-> s[a + i]]

\* the positions that bound the space-separated groups of s
Bounds(s) == {0, Len(s) + 1} \cup {i \in 1..Len(s) : s[i] = " "}

AllDigits(g) == \A i \in 1..Len(g) : IsDigit(g[i])

\* an optional minus sign followed by one to three digits
IsLeftmostGroup(g) ==
    LET digits == IF Len(g) > 0 /\ g[1] = "-" THEN Tail(g) ELSE g
    IN  Len(digits) \in 1..3 /\ AllDigits(digits)

\* C17: for every integer, format_int returns its decimal digits in groups of
\* three from the right with single spaces: without the spaces it is the
\* plain decimal representation, every group has exactly three digits except
\* the leftmost, an optional minus sign followed by one to three digits; and
\* format_int(None) is "N/A".
C17_GroupsOfThree ==
    Returned("format_int") =>
        LET val == Unwrap(call).val
            s == Unwrap(ret)
        IN  IF val = None THEN s = <<"N", "/", "A">>
            ELSE /\ SelectSeq(s, LAMBDA c : c # " ") = i64_to_string(Unwrap(val))
                 /\ \A a, b \in Bounds(s) :
                       (a < b /\ ~\E m \in Bounds(s) : a < m /\ m < b)
                          => IF a = 0 THEN IsLeftmostGroup(Between(s, a, b))
                             ELSE /\ Len(Between(s, a, b)) = 3
                                  /\ AllDigits(Between(s, a, b))

\* the same for the values that are not negative, which the code gets right
C17_NonNegativeGroupsOfThree ==
    (Returned("format_int") /\ Unwrap(call).val # None) =>
        (Unwrap(Unwrap(call).val) >= 0 => C17_GroupsOfThree)

C19_NoEarlyFetch ==
    [][/\ (pc = "poll" /\ pc' = "fetch_tick" /\ ~force_pending)
             => /\ now' >= next_refresh
                /\ IsSome(fetch_done_at)
                /\ now' >= Unwrap(fetch_done_at) + refresh_interval
       /\ fetch_count' <= fetch_count + 1
       /\ (fetch_count' = fetch_count + 1 /\ pc = "poll") => last_op' = "tick"
      ]_vars

\* a failed fetch is followed by the next one a full interval later
C19_Witness ==
    /\ pc = "fetch_tick"
    /\ last_op = "tick"
    /\ ~is_loading
    /\ IsSome(last_error)
    /\ refresh_interval > 0
    /\ now >= Unwrap(fetch_done_at) + refresh_interval

\* A refresh is due in the loop (forced, or the deadline has passed), the
\* tick interval has run out, so the input wait has timeout zero, and a fetch
\* can still start.
RefreshDue ==
    /\ pc \in {"draw", "poll"}
    /\ should_refresh_now(now)
    /\ poll_timeout = 0
    /\ fetch_count < MaxFetches

\* C20: every forced refresh and every passing of the deadline is eventually
\* followed by a fetch attempt unless the quit key is handled first, whatever
\* terminal events come in: an iteration whose input wait times out
\* eventually occurs.
C20_DueRefreshIsAttempted == [](RefreshDue => <>(pc \in {"fetch_tick", "exit"}))

\* A fetch has been started and has not returned.
InFlight == pc \in {"fetch_main", "fetch_tick"}

\* The application state is the whole result of the last fetch.
ResultWritten ==
    /\ IsSome(last_fetch)
    /\ ~InFlight
    /\ IF Unwrap(last_fetch).ok
       THEN /\ quota_data = Some(Unwrap(last_fetch).v)
            /\ last_error = None
            /\ last_update = fetch_done_at
       ELSE last_error = Some(Display(Unwrap(last_fetch).e))

\* C21: at most one fetch is in flight, and while it is the loop neither
\* draws nor handles input: the only step is the return of that fetch.  A key
\* typed during the fetch is handled only after the fetch has returned and
\* its result is in the state, and the renderer never reads a state that
\* holds a part of a result.
C21_FetchSuspendsLoop ==
    [][/\ InFlight => (last_op' = "fetch_return" /\ ~InFlight')
       /\ fetch_count' # fetch_count => (~InFlight /\ InFlight')
       /\ last_op' \in {"draw", "key", "event", "tick"} => ~InFlight
       /\ (IsSome(typed') /\ typed' # typed)
             => (last_op' = "fetch_return" /\ should_quit' = should_quit
                   /\ ~is_loading' /\ ResultWritten')
       /\ (last_op' = "key" /\ IsSome(typed))
             => (last_key' = Unwrap(typed) /\ typed' = None /\ ResultWritten)
       /\ last_op' = "draw" => ResultWritten'
      ]_vars

\* a quit key typed during a fetch of the loop: the fetch has returned, its
\* result is stored, and the key has not taken effect yet
C21_Witness ==
    /\ last_op = "fetch_return"
    /\ IsSome(typed)
    /\ Unwrap(typed) \in QuitKeys
    /\ ~should_quit
    /\ pc = "draw"
    /\ ResultWritten

\* Config::load has returned.
Loaded == pc # "load" /\ IsSome(ret)

NonBlank(o) == IsSome(o) /\ \E i \in 1..Len(Unwrap(o)) : Unwrap(o)[i] # " "

\* what a field of the config file gives: nothing unless the file is there,
\* can be read and parses
FileGives(sys, field) ==
    IF sys.config_dir /\ sys.file.exists /\ sys.file.read /\ sys.file.parse
    THEN sys.file[field]
    ELSE None

\* the environment variable if it is not blank, else the file's value if it
\* is not blank, else the default; surrounding whitespace is not part of it
Taken(env_value, file_value, default) ==
    IF NonBlank(env_value) THEN Some(trim(Unwrap(env_value)))
    ELSE IF NonBlank(file_value) THEN Some(trim(Unwrap(file_value)))
    ELSE default

TakenBaseUrl(sys) ==
    Taken(sys.ANTHROPIC_BASE_URL, FileGives(sys, "base_url"), Some(DEFAULT_BASE_URL))

TakenAuthToken(sys) ==
    Taken(sys.ANTHROPIC_AUTH_TOKEN, FileGives(sys, "auth_token"), None)

\* main has ended on the failed load: no fetch, no output, no loop.
AbortedAtLoad ==
    /\ ~Unwrap(ret).ok
    /\ pc = "exit"
    /\ last_op = "load"
    /\ fetch_count = 0
    /\ stdout = <<>>
    /\ screen = None

\* The configuration is the one the environment, the file and the defaults give.
LoadedAsTaken ==
    /\ Unwrap(ret).ok
    /\ Unwrap(ret).v.base_url = Unwrap(TakenBaseUrl(Unwrap(call)))
    /\ Unwrap(ret).v.auth_token = Unwrap(TakenAuthToken(Unwrap(call)))

\* C22 as stated: base URL and auth token are each taken from the
\* environment variable when it is not blank, else from the config file when
\* it gives a value that is not blank, else from the default (the base URL
\* only); with no auth token from either source startup fails before any
\* fetch and before the event loop.
C22_EnvThenFileThenDefault ==
    Loaded =>
        IF TakenAuthToken(Unwrap(call)) = None THEN AbortedAtLoad ELSE LoadedAsTaken

\* The config directory is known, and a config file that exists can be read
\* and parses.
FileUsable(sys) ==
    /\ sys.config_dir
    /\ sys.file.exists => (sys.file.read /\ sys.file.parse)

\* C22, amended: when the config directory is known and the config file, if
\* there is one, can be read and parses, the two values are taken as stated
\* (trimmed), and a missing auth token fails startup before any fetch and
\* before the event loop; otherwise startup fails in the same way, whatever
\* the environment variables hold.
C22_EnvThenFileUnlessFileBroken ==
    Loaded =>
        IF FileUsable(Unwrap(call)) /\ TakenAuthToken(Unwrap(call)) # None
        THEN LoadedAsTaken
        ELSE AbortedAtLoad

\* the token comes from the file because the variable is blank, the base URL
\* is the default, and main has gone on to its first fetch
C22_Witness ==
    /\ Loaded
    /\ Unwrap(call).ANTHROPIC_AUTH_TOKEN = Some(<<" ">>)
    /\ Unwrap(call).file.auth_token = Some(<<" ", "u", " ">>)
    /\ Unwrap(call).ANTHROPIC_BASE_URL = None
    /\ Unwrap(call).file.base_url = Some(<<>>)
    /\ Unwrap(ret) = Ok([base_url |-> DEFAULT_BASE_URL, auth_token |-> <<"u">>])
    /\ fetch_count = 1

\* C23: what test_progress_bar asserts: at width 10, 50 percent is ten filled
\* glyphs and "50%", 0 percent is no glyph at all and "0%", 100 percent is
\* ten filled glyphs and "100%".
C23_TestProgressBar ==
    (Returned("progress_bar") /\ Unwrap(call).width = 10) =>
        LET percentage == Unwrap(call).percentage
            s == Unwrap(ret)
        IN  /\ percentage = Some(500)
                  => s = <<"[">> \o repeat(filled_glyph, 10) \o <<"]", " ", "5", "0", "%">>
            /\ percentage = Some(0)
                  => s = <<"[", "]", " ", "0", "%">>
            /\ percentage = Some(1000)
                  => s = <<"[">> \o repeat(filled_glyph, 10)
                           \o <<"]", " ", "1", "0", "0", "%">>

\* the third assertion alone, which the code meets
C23_FullBarAssertion ==
    (Returned("progress_bar") /\ Unwrap(call).width = 10
        /\ Unwrap(call).percentage = Some(1000))
        => Unwrap(ret) = <<"[">> \o repeat(filled_glyph, 10)
                           \o <<"]", " ", "1", "0", "0", "%">>

\* run_app is running: between its entry and its return.
InLoop == pc \in {"draw", "poll", "fetch_tick"}

\* C24: in every state the renderer is given inside the event loop,
\* is_loading is true or last_error is present or a snapshot is stored, so
\* neither the no-data placeholder nor the footer status "Waiting" is ever
\* drawn: a fetch has completed before the first draw.
C24_NeverNoData ==
    /\ InLoop => (is_loading \/ IsSome(last_error) \/ IsSome(quota_data))
    /\ last_op = "draw" => IsSome(last_fetch)
    /\ (IsSome(screen) /\ Unwrap(screen).layout = "normal")
          => /\ Unwrap(screen).body # <<"no_data">>
             /\ Unwrap(screen).footer # "Waiting"

\* a draw with nothing but the error of the startup fetch to show
C24_Witness ==
    /\ DrewLayout
    /\ ~is_loading
    /\ IsSome(last_error)
    /\ quota_data = None
    /\ fetch_count = 1
    /\ Unwrap(screen).body = <<"error">>
    /\ Unwrap(screen).footer = "Error"

\* C25: once a fetch has completed, last_error is present exactly when the
\* most recently completed fetch failed, and it is the text of that failure,
\* whatever keys were handled since.
C25_ErrorIsLastFailure ==
    IsSome(last_fetch) =>
        last_error = IF Unwrap(last_fetch).ok THEN None
                     ELSE Some(Display(Unwrap(last_fetch).e))

\* a failure after a success and a forced refresh: the error is that of the
\* failure, the snapshot is still stored
C25_Witness ==
    /\ IsSome(last_fetch)
    /\ ~Unwrap(last_fetch).ok
    /\ IsSome(quota_data)
    /\ last_key \in ForceKeys
    /\ is_loading
    /\ last_error = Some(Display(Unwrap(last_fetch).e))

\* C26: last_update is present exactly when a snapshot is stored, it is set
\* to the completion time by each successful fetch, and nothing else (a
\* failed fetch, a key, a tick, a draw) changes it.
C26_LastUpdateIsLastSuccess ==
    [][/\ IsSome(last_update') <=> IsSome(quota_data')
       /\ IF last_op' = "fetch_return" /\ Unwrap(last_fetch').ok
          THEN last_update' = Some(now') /\ last_update' = fetch_done_at'
          ELSE last_update' = last_update
      ]_vars

\* a failed fetch that returned later than the last success
C26_Witness ==
    /\ last_op = "fetch_return"
    /\ ~Unwrap(last_fetch).ok
    /\ IsSome(last_update)
    /\ IsSome(quota_data)
    /\ Unwrap(last_update) < Unwrap(fetch_done_at)

\* C27: the deadline is never later than the current time plus one refresh
\* interval, so the countdown of the header is between 0 and the interval,
\* and it is 0 whenever a refresh is due.
C27_DeadlineWithinInterval ==
    /\ next_refresh <= now + refresh_interval
    /\ seconds_until_refresh(now) \in 0..refresh_interval
    /\ should_refresh_now(now) => seconds_until_refresh(now) = 0
    /\ DrewLayout
          => /\ Unwrap(screen).header.next_refresh_in \in 0..refresh_interval
             /\ should_refresh_now(now) => Unwrap(screen).header.next_refresh_in = 0

\* a countdown strictly inside the interval
C27_Witness ==
    /\ DrewLayout
    /\ refresh_interval = 2
    /\ Unwrap(screen).header.next_refresh_in = 1
    /\ ~should_refresh_now(now)

\* C28: a forced refresh leaves quota_data, last_error, last_update, the
\* refresh interval and the quit flag as they were; the quit key changes the
\* quit flag only; any other key changes nothing of the application state;
\* and no step but the handling of a quit key sets the quit flag.
C28_KeysChangeOnlyTheirPart ==
    [][/\ last_op' = "key"
             => /\ UNCHANGED <<quota_data, last_error, last_update, refresh_interval>>
                /\ last_key' \in ForceKeys => UNCHANGED should_quit
                /\ last_key' \in QuitKeys
                      => (should_quit' /\ UNCHANGED <<next_refresh, is_loading>>)
                /\ last_key' \notin (ForceKeys \cup QuitKeys) => UNCHANGED app_state
       /\ should_quit' # should_quit => (last_op' = "key" /\ last_key' \in QuitKeys)
      ]_vars

\* a forced refresh handled while an error and a snapshot are stored
C28_Witness ==
    /\ last_op = "key"
    /\ last_key \in ForceKeys
    /\ IsSome(last_error)
    /\ IsSome(quota_data)
    /\ IsSome(last_update)
    /\ is_loading
    /\ ~should_quit

====
